---- MODULE Spec2Model ----
(***************************************************************************)
(* Clusters: the puzzle state machine of hooks/useGameState.ts.            *)
(*                                                                         *)
(* The hook keeps four pieces of React state (gameState, selectedSquareIds,*)
(* lastMergeResult, shakingSquareIds).  Its callbacks read the game state  *)
(* through the closure of the render that created them (closure) and write *)
(* through the state setters.  In Spec every call of a public operation is *)
(* one event: the handler runs, its queued state updates are applied in    *)
(* order, and React renders the component again before the next event.     *)
(* In SpecBackToBack a caller calls selectSquare up to MaxBackToBack times *)
(* between two renders, so that the later calls run on the closure of the  *)
(* render before the first.  SpecLayout is GameBoard alone, with           *)
(* packIntoRows (utils/gridLayout.ts) applied to grids of unsolved squares *)
(* of every size up to MaxLayoutItems and to two boards of the puzzle at   *)
(* its full size (the 100 singleton squares of a new game; one square of 9 *)
(* items and nine singletons).  SpecBoardMerge is the rest of a game of    *)
(* the puzzle at its full size from a board with two categories unsolved:  *)
(* successful merges, each followed by the render of GameBoard.            *)
(* SpecStaleMerge is a caller that taps the squares of one category up to  *)
(* MaxStaleCalls times between two renders, so that a second merge is      *)
(* computed from the grid of the render before the first.  SpecReplayed is *)
(* Spec with every selection updater that attempts a merge evaluated       *)
(* twice, as React's StrictMode does in development.                       *)
(*                                                                         *)
(* Scaling: a puzzle of the program has 10 categories of 10 items, and the *)
(* code compares with the literal 10 twice (a square is solved at 10       *)
(* items, the game is won at 10 solved categories).  The puzzle of the     *)
(* model is the sample puzzle cut down to its first two categories and     *)
(* their first three items, and the two thresholds are the dimensions of   *)
(* that puzzle: ITEMS_PER_CATEGORY and CATEGORIES_PER_PUZZLE.              *)
(***************************************************************************)
EXTENDS Integers, Sequences, FiniteSets, TLC

\* ---------------------------------------------------------------------------
\* Bounds
\* ---------------------------------------------------------------------------

\* Cap of the mistakes counter (a failed merge is not attempted beyond it).
MaxMistakes == 2

\* Date.now() returns a value of 0..MaxClock.
MaxClock == 1

\* Math.random() returns k / RandomResolution for a k of 0..RandomResolution-1.
RandomResolution == 2

\* The most selectSquare calls a caller makes between two renders.
MaxBackToBack == 2

\* The most selectSquare calls between two renders of a caller that taps
\* the squares of one category.
MaxStaleCalls == 3

\* The most squares of a layout input, and the most items of one of them.
MaxLayoutSquares == 6
MaxLayoutItems == 5

\* ---------------------------------------------------------------------------
\* Puzzle content
\* ---------------------------------------------------------------------------

fruits == [id |-> "cat-fruits", items |-> <<"Apple", "Banana", "Orange">>]

countries == [id |-> "cat-countries", items |-> <<"France", "Japan", "Brazil">>]

SAMPLE_PUZZLE == [id |-> "puzzle-sample-001", categories |-> <<fruits, countries>>]

\* Number of categories in the puzzle: the count of solved categories that wins.
CATEGORIES_PER_PUZZLE == Len(SAMPLE_PUZZLE.categories)

\* Number of items in each category: the item count at which a square is solved.
ITEMS_PER_CATEGORY == Len(fruits.items)

TOTAL_ITEMS == CATEGORIES_PER_PUZZLE * ITEMS_PER_CATEGORY

\* A value of an optional field is <<>> (undefined / null) or <<v>>.
Undefined == <<>>
Some(v) == <<v>>

\* puzzle.categories.find((cat) => cat.items.includes(item))
findCategoryForItem(puzzle, item) ==
    LET hits == SelectSeq(puzzle.categories,
                          LAMBDA cat : \E i \in 1..Len(cat.items) : cat.items[i] = item)
    IN  IF hits = <<>> THEN Undefined ELSE Some(hits[1])

\* ---------------------------------------------------------------------------
\* Initialization helpers
\* ---------------------------------------------------------------------------

\* The template string `${category.id}-${index}`.
SquareId(categoryId, index) == <<categoryId, index>>

\* j = Math.floor(Math.random() * (i + 1)) for Math.random() = numerator / RandomResolution
RandomIndex(numerator, i) == (numerator * (i + 1)) \div RandomResolution

\* The streams of values Math.random() returns during one shuffle: the model
\* draws one numerator per shuffle and Math.random() returns it at every call.
RandomStreams == 0..(RandomResolution - 1)

\* Mutant: the swap overwrites the element at i and leaves the one at j.
Swap_Overwrites(array, i, j) ==
    [k \in 1..Len(array) |-> IF k = i + 1 THEN array[j + 1] ELSE array[k]]

\* Swap of the elements at the 0-based indexes i and j.
Swap(array, i, j) ==
    [k \in 1..Len(array) |->
        IF k = i + 1 THEN array[j + 1] ELSE IF k = j + 1 THEN array[i + 1] ELSE array[k]]

RECURSIVE ShuffleFrom(_, _, _)
\* The loop of shuffleArray from index i down to 1.
ShuffleFrom(shuffled, i, stream) ==
    IF i > 0
    THEN ShuffleFrom(Swap(shuffled, i, RandomIndex(stream, i)), i - 1, stream)
    ELSE shuffled

\* Fisher-Yates on a copy of the array.
shuffleArray(array, stream) == ShuffleFrom(array, Len(array) - 1, stream)

RECURSIVE Flatten(_)
Flatten(seqs) == IF seqs = <<>> THEN <<>> ELSE Head(seqs) \o Flatten(Tail(seqs))

\* The squares of initializeGrid before the shuffle, in push order.
UnitSquares(puzzle) ==
    Flatten([c \in 1..Len(puzzle.categories) |->
                [i \in 1..Len(puzzle.categories[c].items) |->
                    [id |-> SquareId(puzzle.categories[c].id, i - 1),
                     items |-> <<puzzle.categories[c].items[i]>>,
                     categoryId |-> puzzle.categories[c].id,
                     isSolved |-> FALSE]]])

initializeGrid(puzzle, stream) == shuffleArray(UnitSquares(puzzle), stream)

initializeGameState(puzzle, stream, now) ==
    [puzzleId |-> puzzle.id,
     grid |-> initializeGrid(puzzle, stream),
     mistakes |-> 0,
     solvedCategoryIds |-> <<>>,
     status |-> "playing",
     startTime |-> now,
     endTime |-> Undefined]

\* ---------------------------------------------------------------------------
\* State
\* ---------------------------------------------------------------------------

VARIABLES
    gameState,          \* useState<GameState>
    selectedSquareIds,  \* useState<SelectedSquareIds>
    lastMergeResult,    \* useState<MergeResult | null>: Undefined or Some(result)
    shakingSquareIds,   \* useState<string[]>
    closure,            \* the gameState the callbacks of the last render read
    renderPhaseUpdates, \* the cells an updater has set since the last render
    callsSinceRender,   \* the number of selectSquare calls since the last render
    unsolvedSquares,    \* GameBoard: useMemo(() => getUnsolvedSquares(grid), [grid])
    rows,               \* GameBoard: useMemo(() => packIntoRows(unsolvedSquares), ...)
    lastCall            \* history: the last public operation and the path it took

vars ==
    <<gameState, selectedSquareIds, lastMergeResult, shakingSquareIds, closure,
      renderPhaseUpdates, callsSinceRender, unsolvedSquares, rows, lastCall>>

Clock == 0..MaxClock

\* The ids a caller passes to selectSquare: every id of the puzzle and one
\* id that no square has.
SquareIds ==
    {SquareId(SAMPLE_PUZZLE.categories[c].id, i) :
        c \in 1..CATEGORIES_PER_PUZZLE, i \in 0..(ITEMS_PER_CATEGORY - 1)}
        \cup {SquareId("cat-none", 0)}

\* ---------------------------------------------------------------------------
\* Computed helpers
\* ---------------------------------------------------------------------------

\* The most squares that can be selected at once.
MAX_SELECTION == 2

isSquareSelected(selection, squareId) ==
    \E i \in 1..Len(selection) : selection[i] = squareId

\* grid.find((sq) => sq.id === squareId)
getSquareById(grid, squareId) ==
    LET hits == SelectSeq(grid, LAMBDA sq : sq.id = squareId)
    IN  IF hits = <<>> THEN Undefined ELSE Some(hits[1])

\* Mutant: the lookup returns the first category whatever the id.
getCategoryById_FirstCategory(puzzle, categoryId) == Some(puzzle.categories[1])

\* puzzle.categories.find((cat) => cat.id === categoryId)
getCategoryById(puzzle, categoryId) ==
    LET hits == SelectSeq(puzzle.categories, LAMBDA cat : cat.id = categoryId)
    IN  IF hits = <<>> THEN Undefined ELSE Some(hits[1])

\* ---------------------------------------------------------------------------
\* Row layout (utils/gridLayout.ts)
\* ---------------------------------------------------------------------------

\* Target number of item units per row.
TARGET_ITEMS_PER_ROW == 5

\* Maximum items allowed in a single row.
MAX_ITEMS_PER_ROW == 10

getUnsolvedSquares(squares) == SelectSeq(squares, LAMBDA sq : ~sq.isSolved)

getSolvedSquares(squares) == SelectSeq(squares, LAMBDA sq : sq.isSolved)

\* Mutant: a square goes ahead of the squares that hold as many items.
InsertByItemCount_TiesFirst(sorted, square) ==
    LET ahead == Cardinality({k \in 1..Len(sorted) :
                                Len(sorted[k].items) > Len(square.items)})
    IN  SubSeq(sorted, 1, ahead) \o <<square>> \o SubSeq(sorted, ahead + 1, Len(sorted))

\* One step of the stable sort by (a, b) => b.items.length - a.items.length:
\* the square goes behind every square that holds at least as many items.
InsertByItemCount(sorted, square) ==
    LET ahead == Cardinality({k \in 1..Len(sorted) :
                                Len(sorted[k].items) >= Len(square.items)})
    IN  SubSeq(sorted, 1, ahead) \o <<square>> \o SubSeq(sorted, ahead + 1, Len(sorted))

RECURSIVE SortFrom(_, _)
\* The sort with the first Len(sorted) squares already placed.
SortFrom(squares, sorted) ==
    IF Len(sorted) = Len(squares) THEN sorted
    ELSE SortFrom(squares, InsertByItemCount(sorted, squares[Len(sorted) + 1]))

\* [...squares].sort((a, b) => b.items.length - a.items.length)
SortedByItemCount(squares) == SortFrom(squares, <<>>)

\* Mutant: the sort is of the array itself, not of a copy.
squaresAfterPackIntoRows_SortedInPlace(squares) == SortedByItemCount(squares)

\* The array given to packIntoRows as the call leaves it: the sort is of the
\* copy [...squares], and the loop reads the squares and writes none.
squaresAfterPackIntoRows(squares) == squares

\* Mutant: a row is closed with the count of its last square only.
ClosedRow_CountsLastSquare(currentSquares, currentTotal) ==
    [squares |-> currentSquares,
     totalItems |-> Len(currentSquares[Len(currentSquares)].items)]

\* rows.push({ squares: currentSquares, totalItems: currentTotal })
ClosedRow(currentSquares, currentTotal) ==
    [squares |-> currentSquares, totalItems |-> currentTotal]

\* Mutant: the ceiling is TARGET_ITEMS_PER_ROW.
wouldExceed_TargetAsCeiling(currentTotal, itemCount) ==
    currentTotal + itemCount > TARGET_ITEMS_PER_ROW

\* const wouldExceed = currentTotal + itemCount > MAX_ITEMS_PER_ROW
wouldExceed(currentTotal, itemCount) == currentTotal + itemCount > MAX_ITEMS_PER_ROW

\* Mutant: the target is reached only above TARGET_ITEMS_PER_ROW.
isAtTarget_AboveTarget(currentTotal) == currentTotal > TARGET_ITEMS_PER_ROW

\* Mutant: the target is the ceiling MAX_ITEMS_PER_ROW.
isAtTarget_AtCeiling(currentTotal) == currentTotal >= MAX_ITEMS_PER_ROW

\* const isAtTarget = currentTotal >= TARGET_ITEMS_PER_ROW
isAtTarget(currentTotal) == currentTotal >= TARGET_ITEMS_PER_ROW

\* Mutant: the loop never closes a row.
PackSquare_NeverClosesRow(sorted, loop) ==
    [i |-> loop.i + 1,
     rows |-> loop.rows,
     currentSquares |-> Append(loop.currentSquares, sorted[loop.i]),
     currentTotal |-> loop.currentTotal + Len(sorted[loop.i].items)]

\* One pass of the body of the loop of packIntoRows, for the square at
\* sorted[loop.i]. loop holds the variables of the loop: the index i of the
\* square to place, rows, currentSquares and currentTotal.
PackSquare(sorted, loop) ==
    LET square == sorted[loop.i]
        itemCount == Len(square.items)
    IN  IF /\ \/ wouldExceed(loop.currentTotal, itemCount)
              \/ isAtTarget(loop.currentTotal)
           /\ Len(loop.currentSquares) > 0
        THEN [i |-> loop.i + 1,
              rows |-> Append(loop.rows, ClosedRow(loop.currentSquares, loop.currentTotal)),
              currentSquares |-> <<square>>,
              currentTotal |-> itemCount]
        ELSE [i |-> loop.i + 1,
              rows |-> loop.rows,
              currentSquares |-> Append(loop.currentSquares, square),
              currentTotal |-> loop.currentTotal + itemCount]

\* Mutant: the loop without the push of the last row after it.
RECURSIVE PackFrom_DropsLastRow(_, _)
PackFrom_DropsLastRow(sorted, loop) ==
    IF loop.i <= Len(sorted) THEN PackFrom_DropsLastRow(sorted, PackSquare(sorted, loop))
    ELSE loop.rows

RECURSIVE PackFrom(_, _)
\* The loop of packIntoRows over sorted from the state loop, and the push of
\* the last row after it.
PackFrom(sorted, loop) ==
    IF loop.i <= Len(sorted) THEN PackFrom(sorted, PackSquare(sorted, loop))
    ELSE IF Len(loop.currentSquares) > 0
         THEN Append(loop.rows, ClosedRow(loop.currentSquares, loop.currentTotal))
         ELSE loop.rows

packIntoRows(squares) ==
    IF Len(squares) = 0 THEN <<>>
    ELSE PackFrom(SortedByItemCount(squares),
                  [i |-> 1, rows |-> <<>>, currentSquares |-> <<>>, currentTotal |-> 0])

\* The quotient numerator / denominator, kept as the pair.
Fraction(numerator, denominator) == [numerator |-> numerator, denominator |-> denominator]

\* The layout items of calculateLayout, row after row.
calculateLayout(squares) ==
    LET packed == packIntoRows(squares)
    IN  Flatten([r \in 1..Len(packed) |->
                    [k \in 1..Len(packed[r].squares) |->
                        [square |-> packed[r].squares[k],
                         rowIndex |-> r - 1,
                         widthFraction |->
                            Fraction(Len(packed[r].squares[k].items), packed[r].totalItems)]]])

getTotalRows(squares) == Len(packIntoRows(squares))

\* ---------------------------------------------------------------------------
\* Merge logic
\* ---------------------------------------------------------------------------

\* Mutant: the validation rejects nothing.
CategoriesDiffer_NeverRejects(squareA, squareB) == FALSE

\* Mutant: every pair of squares is refused as one of different categories.
CategoriesDiffer_AlwaysRejects(squareA, squareB) == TRUE

\* The validation of attemptMerge: squareA.categoryId !== squareB.categoryId
CategoriesDiffer(squareA, squareB) == squareA.categoryId # squareB.categoryId

\* Mutant: the merged square keeps only the first square's items.
MergedSquare_DropsSecondItems(squareA, squareB) ==
    [id |-> squareA.id,
     items |-> squareA.items,
     categoryId |-> squareA.categoryId,
     isSolved |-> (Len(squareA.items) + Len(squareB.items) = ITEMS_PER_CATEGORY)]

\* Mutant: the solved flag is raised one item early.
MergedSquare_SolvedOneEarly(squareA, squareB) ==
    [id |-> squareA.id,
     items |-> squareA.items \o squareB.items,
     categoryId |-> squareA.categoryId,
     isSolved |-> (Len(squareA.items) + Len(squareB.items) >= ITEMS_PER_CATEGORY - 1)]

\* Mutant: the second square's items come first.
MergedSquare_SecondItemsFirst(squareA, squareB) ==
    [id |-> squareA.id,
     items |-> squareB.items \o squareA.items,
     categoryId |-> squareA.categoryId,
     isSolved |-> (Len(squareA.items) + Len(squareB.items) = ITEMS_PER_CATEGORY)]

\* Mutant: the merged square holds the first square's items twice.
MergedSquare_FirstItemsTwice(squareA, squareB) ==
    [id |-> squareA.id,
     items |-> squareA.items \o squareA.items,
     categoryId |-> squareA.categoryId,
     isSolved |-> (Len(squareA.items) + Len(squareB.items) = ITEMS_PER_CATEGORY)]

\* Mutant: the merged square keeps the id of the second square.
MergedSquare_KeepsSecondId(squareA, squareB) ==
    [id |-> squareB.id,
     items |-> squareA.items \o squareB.items,
     categoryId |-> squareA.categoryId,
     isSolved |-> (Len(squareA.items) + Len(squareB.items) = ITEMS_PER_CATEGORY)]

\* The merged square attemptMerge builds from the two squares it looked up.
MergedSquare(squareA, squareB) ==
    [id |-> squareA.id,
     items |-> squareA.items \o squareB.items,
     categoryId |-> squareA.categoryId,
     isSolved |-> (Len(squareA.items) + Len(squareB.items) = ITEMS_PER_CATEGORY)]

\* Mutant: a failed merge counts twice.
MistakeUpdater_CountsTwice(prev) == [prev EXCEPT !.mistakes = prev.mistakes + 2]

\* The function attemptMerge passes to setGameState on a failed merge.
MistakeUpdater(prev) == [prev EXCEPT !.mistakes = prev.mistakes + 1]

\* Mutant: the win is decided on the list before the append.
MergeUpdater_WonFromPreviousList(prev, mergedSquare, squareIdA, squareIdB, now) ==
    LET newGrid ==
            Append(SelectSeq(prev.grid, LAMBDA sq : sq.id # squareIdA /\ sq.id # squareIdB),
                   mergedSquare)
        newSolvedCategoryIds ==
            IF mergedSquare.isSolved
            THEN Append(prev.solvedCategoryIds, mergedSquare.categoryId)
            ELSE prev.solvedCategoryIds
        isWon == Len(prev.solvedCategoryIds) = CATEGORIES_PER_PUZZLE
    IN  [prev EXCEPT !.grid = newGrid,
                     !.solvedCategoryIds = newSolvedCategoryIds,
                     !.status = IF isWon THEN "won" ELSE "playing",
                     !.endTime = IF isWon THEN Some(now) ELSE Undefined]

\* Mutant: the category is appended on every merge, solved or not.
MergeUpdater_AppendsOnEveryMerge(prev, mergedSquare, squareIdA, squareIdB, now) ==
    LET newGrid ==
            Append(SelectSeq(prev.grid, LAMBDA sq : sq.id # squareIdA /\ sq.id # squareIdB),
                   mergedSquare)
        newSolvedCategoryIds == Append(prev.solvedCategoryIds, mergedSquare.categoryId)
        isWon == Len(newSolvedCategoryIds) = CATEGORIES_PER_PUZZLE
    IN  [prev EXCEPT !.grid = newGrid,
                     !.solvedCategoryIds = newSolvedCategoryIds,
                     !.status = IF isWon THEN "won" ELSE "playing",
                     !.endTime = IF isWon THEN Some(now) ELSE Undefined]

\* Mutant: endTime is set whenever a category is solved.
MergeUpdater_EndTimeOnEverySolve(prev, mergedSquare, squareIdA, squareIdB, now) ==
    LET newGrid ==
            Append(SelectSeq(prev.grid, LAMBDA sq : sq.id # squareIdA /\ sq.id # squareIdB),
                   mergedSquare)
        newSolvedCategoryIds ==
            IF mergedSquare.isSolved
            THEN Append(prev.solvedCategoryIds, mergedSquare.categoryId)
            ELSE prev.solvedCategoryIds
        isWon == Len(newSolvedCategoryIds) = CATEGORIES_PER_PUZZLE
    IN  [prev EXCEPT !.grid = newGrid,
                     !.solvedCategoryIds = newSolvedCategoryIds,
                     !.status = IF isWon THEN "won" ELSE "playing",
                     !.endTime = IF mergedSquare.isSolved THEN Some(now) ELSE Undefined]

\* Mutant: the merge removes the first-selected square only.
MergeUpdater_KeepsSecondSquare(prev, mergedSquare, squareIdA, squareIdB, now) ==
    LET newGrid ==
            Append(SelectSeq(prev.grid, LAMBDA sq : sq.id # squareIdA), mergedSquare)
        newSolvedCategoryIds ==
            IF mergedSquare.isSolved
            THEN Append(prev.solvedCategoryIds, mergedSquare.categoryId)
            ELSE prev.solvedCategoryIds
        isWon == Len(newSolvedCategoryIds) = CATEGORIES_PER_PUZZLE
    IN  [prev EXCEPT !.grid = newGrid,
                     !.solvedCategoryIds = newSolvedCategoryIds,
                     !.status = IF isWon THEN "won" ELSE "playing",
                     !.endTime = IF isWon THEN Some(now) ELSE Undefined]

\* Mutant: the merged square goes to the front of the grid.
MergeUpdater_MergedSquareFirst(prev, mergedSquare, squareIdA, squareIdB, now) ==
    LET newGrid ==
            <<mergedSquare>> \o
                SelectSeq(prev.grid, LAMBDA sq : sq.id # squareIdA /\ sq.id # squareIdB)
        newSolvedCategoryIds ==
            IF mergedSquare.isSolved
            THEN Append(prev.solvedCategoryIds, mergedSquare.categoryId)
            ELSE prev.solvedCategoryIds
        isWon == Len(newSolvedCategoryIds) = CATEGORIES_PER_PUZZLE
    IN  [prev EXCEPT !.grid = newGrid,
                     !.solvedCategoryIds = newSolvedCategoryIds,
                     !.status = IF isWon THEN "won" ELSE "playing",
                     !.endTime = IF isWon THEN Some(now) ELSE Undefined]

\* The function attemptMerge passes to setGameState on a successful merge.
MergeUpdater(prev, mergedSquare, squareIdA, squareIdB, now) ==
    LET newGrid ==
            Append(SelectSeq(prev.grid, LAMBDA sq : sq.id # squareIdA /\ sq.id # squareIdB),
                   mergedSquare)
        newSolvedCategoryIds ==
            IF mergedSquare.isSolved
            THEN Append(prev.solvedCategoryIds, mergedSquare.categoryId)
            ELSE prev.solvedCategoryIds
        isWon == Len(newSolvedCategoryIds) = CATEGORIES_PER_PUZZLE
    IN  [prev EXCEPT !.grid = newGrid,
                     !.solvedCategoryIds = newSolvedCategoryIds,
                     !.status = IF isWon THEN "won" ELSE "playing",
                     !.endTime = IF isWon THEN Some(now) ELSE Undefined]

FailureResult == [success |-> FALSE, reason |-> "different-categories"]

\* attemptMerge(squareIdA, squareIdB), reading the grid of its closure: the
\* result it returns and the update of gameState it queues.
attemptMerge(grid, squareIdA, squareIdB) ==
    LET squareA == getSquareById(grid, squareIdA)
        squareB == getSquareById(grid, squareIdB)
    IN  IF squareA = Undefined \/ squareB = Undefined
        THEN [result |-> FailureResult, update |-> [kind |-> "none"]]
        ELSE IF CategoriesDiffer(squareA[1], squareB[1])
        THEN [result |-> FailureResult, update |-> [kind |-> "mistake"]]
        ELSE LET mergedSquare == MergedSquare(squareA[1], squareB[1])
             IN  [result |->
                    [success |-> TRUE,
                     mergedSquare |-> mergedSquare,
                     solvedCategory |->
                        IF mergedSquare.isSolved
                        THEN getCategoryById(SAMPLE_PUZZLE, mergedSquare.categoryId)
                        ELSE Undefined],
                  update |->
                    [kind |-> "merge", mergedSquare |-> mergedSquare,
                     squareIdA |-> squareIdA, squareIdB |-> squareIdB]]

\* The queued update of gameState applied to the state it finds.
ApplyUpdate(prev, update, now) ==
    IF update.kind = "mistake" THEN MistakeUpdater(prev)
    ELSE IF update.kind = "merge"
    THEN MergeUpdater(prev, update.mergedSquare, update.squareIdA, update.squareIdB, now)
    ELSE prev

\* ---------------------------------------------------------------------------
\* Selection logic
\* ---------------------------------------------------------------------------

\* Mutant: the pair stays selected after the merge attempt.
SelectionUpdater_KeepsPair(prev, squareId, grid) ==
    IF isSquareSelected(prev, squareId)
    THEN [selection |-> SelectSeq(prev, LAMBDA id : id # squareId),
          path |-> "deselect", attempt |-> Undefined]
    ELSE IF Len(prev) = 1
    THEN [selection |-> <<prev[1], squareId>>,
          path |-> "merge", attempt |-> Some(attemptMerge(grid, prev[1], squareId))]
    ELSE [selection |-> <<squareId>>,
          path |-> "first", attempt |-> Undefined]

\* Mutant: the first square stays selected after a failed merge.
SelectionUpdater_KeepsFirstOnFailure(prev, squareId, grid) ==
    IF isSquareSelected(prev, squareId)
    THEN [selection |-> SelectSeq(prev, LAMBDA id : id # squareId),
          path |-> "deselect", attempt |-> Undefined]
    ELSE IF Len(prev) = 1
    THEN [selection |-> IF attemptMerge(grid, prev[1], squareId).result.success
                        THEN <<>> ELSE prev,
          path |-> "merge", attempt |-> Some(attemptMerge(grid, prev[1], squareId))]
    ELSE [selection |-> <<squareId>>,
          path |-> "first", attempt |-> Undefined]

\* Mutant: a selected id is not toggled off.
SelectionUpdater_NoDeselect(prev, squareId, grid) ==
    IF Len(prev) = 1
    THEN [selection |-> <<>>,
          path |-> "merge", attempt |-> Some(attemptMerge(grid, prev[1], squareId))]
    ELSE [selection |-> <<squareId>>,
          path |-> "first", attempt |-> Undefined]

\* Mutant: after a merge attempt the square tapped last stays selected.
SelectionUpdater_KeepsSecondAfterAttempt(prev, squareId, grid) ==
    IF isSquareSelected(prev, squareId)
    THEN [selection |-> SelectSeq(prev, LAMBDA id : id # squareId),
          path |-> "deselect", attempt |-> Undefined]
    ELSE IF Len(prev) = 1
    THEN [selection |-> <<squareId>>,
          path |-> "merge", attempt |-> Some(attemptMerge(grid, prev[1], squareId))]
    ELSE [selection |-> <<squareId>>,
          path |-> "first", attempt |-> Undefined]

\* Mutant: after a failed merge attempt both squares stay selected.
SelectionUpdater_KeepsPairOnFailure(prev, squareId, grid) ==
    IF isSquareSelected(prev, squareId)
    THEN [selection |-> SelectSeq(prev, LAMBDA id : id # squareId),
          path |-> "deselect", attempt |-> Undefined]
    ELSE IF Len(prev) = 1
    THEN LET attempt == attemptMerge(grid, prev[1], squareId)
         IN  [selection |-> IF attempt.result.success THEN <<>> ELSE <<prev[1], squareId>>,
              path |-> "merge", attempt |-> Some(attempt)]
    ELSE [selection |-> <<squareId>>,
          path |-> "first", attempt |-> Undefined]

\* The function selectSquare passes to setSelectedSquareIds: the new
\* selection, the path taken and the merge attempt made on the way, if any.
SelectionUpdater(prev, squareId, grid) ==
    IF isSquareSelected(prev, squareId)
    THEN [selection |-> SelectSeq(prev, LAMBDA id : id # squareId),
          path |-> "deselect", attempt |-> Undefined]
    ELSE IF Len(prev) = 1
    THEN [selection |-> <<>>,
          path |-> "merge", attempt |-> Some(attemptMerge(grid, prev[1], squareId))]
    ELSE [selection |-> <<squareId>>,
          path |-> "first", attempt |-> Undefined]

\* Mutant: only the square tapped last shakes.
ShakeIds_OnlySecond(first, squareId) == <<squareId>>

\* Mutant: the square tapped last is marked twice.
ShakeIds_SecondTwice(first, squareId) == <<squareId, squareId>>

\* The squares selectSquare marks for the shake after a failed merge.
ShakeIds(first, squareId) == <<first, squareId>>

\* Mutant: only an id that no square has is ignored.
IgnoredBecause_OnlyMissing(squareId) ==
    IF getSquareById(closure.grid, squareId) = Undefined THEN "ignored-missing" ELSE ""

\* Mutant: a solved square is accepted.
IgnoredBecause_AcceptsSolved(squareId) ==
    IF closure.status = "won" THEN "ignored-won"
    ELSE LET square == getSquareById(closure.grid, squareId)
         IN  IF square = Undefined THEN "ignored-missing" ELSE ""

\* The early returns of selectSquare: "" when the call is not ignored.
IgnoredBecause(squareId) ==
    IF closure.status = "won" THEN "ignored-won"
    ELSE LET square == getSquareById(closure.grid, squareId)
         IN  IF square = Undefined THEN "ignored-missing"
             ELSE IF square[1].isSolved THEN "ignored-solved"
             ELSE ""

\* React renders again after the event: the callbacks of the next event
\* close over the state the event left, and no update is queued any more.
Render ==
    /\ closure' = gameState'
    /\ renderPhaseUpdates' = {}
    /\ callsSinceRender' = 0
    /\ unsolvedSquares' = squaresAfterPackIntoRows(getUnsolvedSquares(gameState'.grid))
    /\ rows' = packIntoRows(unsolvedSquares')

\* Mutant: the callback leaves the feedback cells as they are.
ClearedUnlessSetInRender_NeverClears(cell, value, cleared) == value

\* The value of a cell after setCell(cleared) in the callback: React runs the
\* selection updater while it renders, after the queue of the cell, so a
\* value an updater of this render has set stays.
ClearedUnlessSetInRender(cell, value, cleared) ==
    IF cell \in renderPhaseUpdates THEN value ELSE cleared

\* The callback selectSquare run against the closure of the last render. The
\* cells hold the state the next render shows.
selectSquare(squareId) ==
    LET ignored == IgnoredBecause(squareId)
    IN  IF ignored # ""
        THEN /\ UNCHANGED <<gameState, selectedSquareIds, lastMergeResult, shakingSquareIds>>
             /\ lastCall' = [op |-> "selectSquare", path |-> ignored]
        ELSE LET u == SelectionUpdater(selectedSquareIds, squareId, closure.grid)
                 cleared ==
                    ClearedUnlessSetInRender("shakingSquareIds", shakingSquareIds, <<>>)
             IN  /\ selectedSquareIds' = u.selection
                 /\ IF u.attempt = Undefined
                    THEN /\ gameState' = gameState
                         /\ lastMergeResult' =
                                ClearedUnlessSetInRender("lastMergeResult",
                                                         lastMergeResult, Undefined)
                         /\ shakingSquareIds' = cleared
                    ELSE \* Date.now() is read by the update of gameState
                         /\ gameState' \in
                                {ApplyUpdate(gameState, u.attempt[1].update, now) : now \in Clock}
                         /\ lastMergeResult' = Some(u.attempt[1].result)
                         /\ shakingSquareIds' =
                                IF ~u.attempt[1].result.success
                                THEN ShakeIds(selectedSquareIds[1], squareId)
                                ELSE cleared
                 /\ lastCall' = [op |-> "selectSquare", path |-> u.path]

\* The cells an updater has set since the last render, after the callback
\* selectSquare(squareId): a merge attempt sets lastMergeResult, a failed one
\* shakingSquareIds too.
RenderPhaseUpdatesAfter(squareId) ==
    IF IgnoredBecause(squareId) # "" THEN renderPhaseUpdates
    ELSE LET u == SelectionUpdater(selectedSquareIds, squareId, closure.grid)
         IN  IF u.attempt = Undefined THEN renderPhaseUpdates
             ELSE renderPhaseUpdates \cup {"lastMergeResult"}
                    \cup (IF u.attempt[1].result.success THEN {} ELSE {"shakingSquareIds"})

clearSelection ==
    /\ selectedSquareIds' = <<>>
    /\ lastMergeResult' = Undefined
    /\ shakingSquareIds' = <<>>
    /\ UNCHANGED gameState
    /\ lastCall' = [op |-> "clearSelection", path |-> ""]
    /\ Render

\* Mutant: clearShake clears the feedback the way clearSelection does.
clearShake_ClearsAllFeedback ==
    /\ shakingSquareIds' = <<>>
    /\ lastMergeResult' = Undefined
    /\ UNCHANGED <<gameState, selectedSquareIds>>
    /\ lastCall' = [op |-> "clearShake", path |-> ""]
    /\ Render

clearShake ==
    /\ shakingSquareIds' = <<>>
    /\ UNCHANGED <<gameState, selectedSquareIds, lastMergeResult>>
    /\ lastCall' = [op |-> "clearShake", path |-> ""]
    /\ Render

\* ---------------------------------------------------------------------------
\* Game control
\* ---------------------------------------------------------------------------

\* The states initializeGameState(puzzle) can return: one for each stream of
\* values Math.random() returns to the shuffle and each value of Date.now().
FreshGameStates ==
    {initializeGameState(SAMPLE_PUZZLE, stream, now) : stream \in RandomStreams, now \in Clock}

\* Mutant: the reset forgets the feedback markers of the game it replaces.
resetGame_KeepsFeedback ==
    /\ gameState' \in FreshGameStates
    /\ selectedSquareIds' = <<>>
    /\ UNCHANGED <<lastMergeResult, shakingSquareIds>>
    /\ lastCall' = [op |-> "resetGame", path |-> ""]
    /\ Render

resetGame ==
    /\ gameState' \in FreshGameStates
    /\ selectedSquareIds' = <<>>
    /\ lastMergeResult' = Undefined
    /\ shakingSquareIds' = <<>>
    /\ lastCall' = [op |-> "resetGame", path |-> ""]
    /\ Render

\* ---------------------------------------------------------------------------
\* Specification
\* ---------------------------------------------------------------------------

\* The state of the hook after the first render.
Init ==
    /\ gameState \in FreshGameStates
    /\ selectedSquareIds = <<>>
    /\ lastMergeResult = Undefined
    /\ shakingSquareIds = <<>>
    /\ closure = gameState
    /\ renderPhaseUpdates = {}
    /\ callsSinceRender = 0
    /\ unsolvedSquares = squaresAfterPackIntoRows(getUnsolvedSquares(gameState.grid))
    /\ rows = packIntoRows(unsolvedSquares)
    /\ lastCall = [op |-> "initialize", path |-> ""]

SelectSquareCall ==
    \E squareId \in SquareIds :
        /\ selectSquare(squareId)
        /\ Render
        /\ gameState'.mistakes <= MaxMistakes

ClearSelectionCall == clearSelection

ClearShakeCall == clearShake

ResetGameCall == resetGame

Next ==
    \/ SelectSquareCall
    \/ ClearSelectionCall
    \/ ClearShakeCall
    \/ ResetGameCall

Spec == Init /\ [][Next]_vars

\* A caller that calls selectSquare again before React has rendered: the
\* callback is the one of the last render and reads the closure of that render.
BackToBackSelectSquare ==
    \E squareId \in SquareIds :
        /\ callsSinceRender < MaxBackToBack
        /\ callsSinceRender' = callsSinceRender + 1
        /\ selectSquare(squareId)
        /\ renderPhaseUpdates' = RenderPhaseUpdatesAfter(squareId)
        /\ UNCHANGED <<closure, unsolvedSquares, rows>>
        /\ gameState'.mistakes <= MaxMistakes

\* React renders once the caller returns.
RenderAfterCalls ==
    /\ closure' = gameState
    /\ renderPhaseUpdates' = {}
    /\ callsSinceRender' = 0
    /\ unsolvedSquares' = squaresAfterPackIntoRows(getUnsolvedSquares(gameState.grid))
    /\ rows' = packIntoRows(unsolvedSquares')
    /\ UNCHANGED <<gameState, selectedSquareIds, lastMergeResult, shakingSquareIds, lastCall>>

NextBackToBack ==
    \/ BackToBackSelectSquare
    \/ RenderAfterCalls

\* The hook under a caller that makes any number of selectSquare calls between
\* two renders.
SpecBackToBack == Init /\ [][NextBackToBack]_vars

\* The ids of the squares of the first category.
OneCategorySquareIds ==
    {SquareId(SAMPLE_PUZZLE.categories[1].id, i) : i \in 0..(ITEMS_PER_CATEGORY - 1)}

\* A caller that taps squares of one category and calls selectSquare again
\* before React has rendered: every merge it attempts is one of squares of the
\* same category.
StaleSelectSquare ==
    \E squareId \in OneCategorySquareIds :
        /\ callsSinceRender < MaxStaleCalls
        /\ callsSinceRender' = callsSinceRender + 1
        /\ selectSquare(squareId)
        /\ renderPhaseUpdates' = RenderPhaseUpdatesAfter(squareId)
        /\ UNCHANGED <<closure, unsolvedSquares, rows>>

NextStaleMerge ==
    \/ StaleSelectSquare
    \/ RenderAfterCalls

\* The hook under a caller that makes up to MaxStaleCalls selectSquare calls
\* between two renders, all of squares of one category.
SpecStaleMerge == Init /\ [][NextStaleMerge]_vars

\* The callback selectSquare under a React that evaluates the function passed
\* to setSelectedSquareIds twice for the call (as StrictMode does with every
\* updater): both evaluations find the same prev and return the same
\* selection, and each one calls attemptMerge, which queues its update of
\* gameState.
selectSquareReplayed(squareId) ==
    LET ignored == IgnoredBecause(squareId)
    IN  IF ignored # ""
        THEN /\ UNCHANGED <<gameState, selectedSquareIds, lastMergeResult, shakingSquareIds>>
             /\ lastCall' = [op |-> "selectSquare", path |-> ignored]
        ELSE LET u == SelectionUpdater(selectedSquareIds, squareId, closure.grid)
             IN  /\ selectedSquareIds' = u.selection
                 /\ IF u.attempt = Undefined
                    THEN /\ gameState' = gameState
                         /\ lastMergeResult' = Undefined
                         /\ shakingSquareIds' = <<>>
                    ELSE /\ gameState' \in
                                {ApplyUpdate(ApplyUpdate(gameState, u.attempt[1].update, now),
                                             u.attempt[1].update, now) : now \in Clock}
                         /\ lastMergeResult' = Some(u.attempt[1].result)
                         /\ shakingSquareIds' =
                                IF ~u.attempt[1].result.success
                                THEN ShakeIds(selectedSquareIds[1], squareId)
                                ELSE <<>>
                 /\ lastCall' = [op |-> "selectSquare", path |-> u.path]

ReplayedSelectSquareCall ==
    \E squareId \in SquareIds :
        /\ selectSquareReplayed(squareId)
        /\ Render
        /\ gameState'.mistakes <= MaxMistakes

NextReplayed ==
    \/ ReplayedSelectSquareCall
    \/ ClearSelectionCall
    \/ ClearShakeCall
    \/ ResetGameCall

\* The hook, one call per event, under a React that evaluates updater
\* functions twice.
SpecReplayed == Init /\ [][NextReplayed]_vars

\* The square at position k of a board grid, holding n items.
LayoutSquare(k, n) ==
    [id |-> SquareId("cat-layout", k - 1),
     items |-> [j \in 1..n |-> <<k, j>>],
     categoryId |-> "cat-layout",
     isSolved |-> FALSE]

\* GameBoard is mounted with an empty grid.
InitLayout ==
    /\ gameState = [initializeGameState(SAMPLE_PUZZLE, 0, 0) EXCEPT !.grid = <<>>]
    /\ selectedSquareIds = <<>>
    /\ lastMergeResult = Undefined
    /\ shakingSquareIds = <<>>
    /\ closure = gameState
    /\ renderPhaseUpdates = {}
    /\ callsSinceRender = 0
    /\ unsolvedSquares = squaresAfterPackIntoRows(getUnsolvedSquares(gameState.grid))
    /\ rows = packIntoRows(unsolvedSquares)
    /\ lastCall = [op |-> "initialize", path |-> ""]

\* GameBoard renders with a grid that holds one more unsolved square, of 1 to
\* MaxLayoutItems items: its grids are the lists of at most MaxLayoutSquares
\* such squares, in every order of sizes.
GameBoardRender ==
    /\ Len(gameState.grid) < MaxLayoutSquares
    /\ \E n \in 1..MaxLayoutItems :
        gameState' = [gameState EXCEPT
                        !.grid = Append(@, LayoutSquare(Len(gameState.grid) + 1, n))]
    /\ unsolvedSquares' = squaresAfterPackIntoRows(getUnsolvedSquares(gameState'.grid))
    /\ rows' = packIntoRows(unsolvedSquares')
    /\ closure' = gameState'
    /\ UNCHANGED <<selectedSquareIds, lastMergeResult, shakingSquareIds,
                   renderPhaseUpdates, callsSinceRender, lastCall>>

\* The ids of the ten categories of SAMPLE_PUZZLE at its full size.
BoardCategoryIds ==
    <<"cat-fruits", "cat-countries", "cat-dogs", "cat-elements", "cat-greek-gods",
      "cat-pasta", "cat-instruments", "cat-gemstones", "cat-currencies", "cat-dances">>

\* ITEMS_PER_CATEGORY of the puzzle at its full size.
BoardItemsPerCategory == 10

\* The number of items before the square at position k of a category that is
\* cut into squares of the given sizes.
RECURSIVE ItemsBefore(_, _)
ItemsBefore(sizes, k) == IF k = 1 THEN 0 ELSE ItemsBefore(sizes, k - 1) + sizes[k - 1]

\* The grid of a board given by the sizes of the squares of each category:
\* the squares of a category hold its items in order, and a square has the id
\* of its first item and is solved when it holds the whole category.
BoardGrid(sizesByCategory) ==
    Flatten([c \in 1..Len(sizesByCategory) |->
                [k \in 1..Len(sizesByCategory[c]) |->
                    LET first == ItemsBefore(sizesByCategory[c], k)
                        count == sizesByCategory[c][k]
                    IN  [id |-> SquareId(BoardCategoryIds[c], first),
                         items |-> [j \in 1..count |-> <<c, first + j>>],
                         categoryId |-> BoardCategoryIds[c],
                         isSolved |-> (count = BoardItemsPerCategory)]]])

\* The grid of a new game of the puzzle at its full size: 100 singleton
\* squares.
InitialBoard ==
    BoardGrid([c \in 1..Len(BoardCategoryIds) |-> [k \in 1..BoardItemsPerCategory |-> 1]])

\* The input of the example of the greedy rule: one square of 9 items and
\* nine singleton squares.
NineAndSingletonsBoard == BoardGrid(<<<<9, 1>>, <<1, 1, 1, 1, 1, 1, 1, 1>>>>)

ExampleBoards == {InitialBoard, NineAndSingletonsBoard}

\* GameBoard renders with the grid of one of the example boards.
GameBoardRenderExample ==
    /\ gameState.grid = <<>>
    /\ \E grid \in ExampleBoards : gameState' = [gameState EXCEPT !.grid = grid]
    /\ unsolvedSquares' = squaresAfterPackIntoRows(getUnsolvedSquares(gameState'.grid))
    /\ rows' = packIntoRows(unsolvedSquares')
    /\ closure' = gameState'
    /\ UNCHANGED <<selectedSquareIds, lastMergeResult, shakingSquareIds,
                   renderPhaseUpdates, callsSinceRender, lastCall>>

NextLayout ==
    \/ GameBoardRender
    \/ GameBoardRenderExample

\* GameBoard alone: packIntoRows applied to every such grid and to the
\* example boards.
SpecLayout == InitLayout /\ [][NextLayout]_vars

\* ---------------------------------------------------------------------------
\* GameBoard over the merges of a game of the puzzle at its full size
\* ---------------------------------------------------------------------------

\* A board in the middle of a game: eight categories solved and two in
\* squares of 3, 3, 2, 2 and of 4, 2, 2, 2 items.
MidGameBoard ==
    BoardGrid([c \in 1..Len(BoardCategoryIds) |->
                IF c = 1 THEN <<3, 3, 2, 2>>
                ELSE IF c = 2 THEN <<4, 2, 2, 2>>
                ELSE <<BoardItemsPerCategory>>])

InitBoardMerge ==
    /\ gameState =
        [initializeGameState(SAMPLE_PUZZLE, 0, 0) EXCEPT
            !.grid = MidGameBoard,
            !.solvedCategoryIds =
                LET solved == getSolvedSquares(MidGameBoard)
                IN  [k \in 1..Len(solved) |-> solved[k].categoryId]]
    /\ selectedSquareIds = <<>>
    /\ lastMergeResult = Undefined
    /\ shakingSquareIds = <<>>
    /\ closure = gameState
    /\ renderPhaseUpdates = {}
    /\ callsSinceRender = 0
    /\ unsolvedSquares = squaresAfterPackIntoRows(getUnsolvedSquares(gameState.grid))
    /\ rows = packIntoRows(unsolvedSquares)
    /\ lastCall = [op |-> "initialize", path |-> ""]

\* The merged square of attemptMerge in the puzzle at its full size: solved
\* when it holds every item of its category.
BoardMergedSquare(squareA, squareB) ==
    [id |-> squareA.id,
     items |-> squareA.items \o squareB.items,
     categoryId |-> squareA.categoryId,
     isSolved |-> (Len(squareA.items) + Len(squareB.items) = BoardItemsPerCategory)]

\* A successful merge of two unsolved squares of one category, as selectSquare
\* makes it on the second selection, and the render of GameBoard with the new
\* grid.
BoardMerge ==
    /\ \E a, b \in 1..Len(gameState.grid) :
        LET squareA == gameState.grid[a]
            squareB == gameState.grid[b]
            mergedSquare == BoardMergedSquare(squareA, squareB)
            newSolvedCategoryIds ==
                IF mergedSquare.isSolved
                THEN Append(gameState.solvedCategoryIds, mergedSquare.categoryId)
                ELSE gameState.solvedCategoryIds
            isWon == Len(newSolvedCategoryIds) = Len(BoardCategoryIds)
        IN  /\ a # b
            /\ gameState.status # "won"
            /\ ~squareA.isSolved /\ ~squareB.isSolved
            /\ squareA.categoryId = squareB.categoryId
            /\ \E now \in Clock :
                gameState' =
                    [gameState EXCEPT
                        !.grid = Append(SelectSeq(@, LAMBDA sq : sq.id # squareA.id
                                                                /\ sq.id # squareB.id),
                                        mergedSquare),
                        !.solvedCategoryIds = newSolvedCategoryIds,
                        !.status = IF isWon THEN "won" ELSE "playing",
                        !.endTime = IF isWon THEN Some(now) ELSE Undefined]
            /\ lastMergeResult' =
                Some([success |-> TRUE, mergedSquare |-> mergedSquare,
                      solvedCategory |->
                        IF mergedSquare.isSolved
                        THEN getCategoryById(SAMPLE_PUZZLE, mergedSquare.categoryId)
                        ELSE Undefined])
    /\ selectedSquareIds' = <<>>
    /\ shakingSquareIds' = <<>>
    /\ lastCall' = [op |-> "selectSquare", path |-> "merge"]
    /\ Render

NextBoardMerge == BoardMerge

\* The merges of the rest of a game of the puzzle at its full size, each
\* followed by the render of GameBoard.
SpecBoardMerge == InitBoardMerge /\ [][NextBoardMerge]_vars

\* ---------------------------------------------------------------------------
\* Vocabulary of the properties
\* ---------------------------------------------------------------------------

Range(seq) == {seq[i] : i \in 1..Len(seq)}

RECURSIVE SumItemCounts(_)
\* The sum of items.length over the squares of a grid.
SumItemCounts(grid) ==
    IF grid = <<>> THEN 0 ELSE Len(Head(grid).items) + SumItemCounts(Tail(grid))

NoDuplicates(seq) == \A i, j \in 1..Len(seq) : i # j => seq[i] # seq[j]

IsPrefix(s, t) == Len(s) <= Len(t) /\ SubSeq(t, 1, Len(s)) = s

\* The squares of the current grid that have the id.
SquaresWithId(squareId) == {sq \in Range(gameState.grid) : sq.id = squareId}

\* The call selectSquare(squareId) is not one the operation ignores.
Accepted(squareId) ==
    /\ gameState.status # "won"
    /\ \E sq \in SquaresWithId(squareId) : ~sq.isSolved

\* The call selectSquare(squareId) is a second selection: exactly one other id is selected.
SecondSelection(squareId) ==
    /\ Accepted(squareId)
    /\ Len(selectedSquareIds) = 1
    /\ selectedSquareIds[1] # squareId
    /\ SquaresWithId(selectedSquareIds[1]) # {}

\* The categoryId of the square of the grid with the id.
CategoryIdOf(squareId) == (CHOOSE sq \in SquaresWithId(squareId) : TRUE).categoryId

SessionStep == lastCall'.op # "resetGame"

\* ---------------------------------------------------------------------------
\* Properties
\* ---------------------------------------------------------------------------

\* C1: in every reachable state the sum of items.length over the squares of
\* the grid is the number of items of the puzzle (100 in the program).
C1_ItemCountConserved == SumItemCounts(gameState.grid) = TOTAL_ITEMS

\* C1 witness: a grid that successful merges have shrunk.
C1_Witness ==
    /\ lastCall.path = "merge"
    /\ lastMergeResult # Undefined /\ lastMergeResult[1].success
    /\ Len(gameState.grid) = TOTAL_ITEMS - 3

\* C2: every item a square holds belongs, in the puzzle, to the category the
\* square's categoryId names.
C2_OneCategoryPerSquare ==
    \A sq \in Range(gameState.grid) :
        \A item \in Range(sq.items) :
            LET cat == findCategoryForItem(SAMPLE_PUZZLE, item)
            IN  cat # Undefined /\ cat[1].id = sq.categoryId

\* C2 witness: clusters of both categories after a refused cross-category merge.
C2_Witness ==
    /\ gameState.mistakes > 0
    /\ \A c \in 1..CATEGORIES_PER_PUZZLE :
        \E sq \in Range(gameState.grid) :
            sq.categoryId = SAMPLE_PUZZLE.categories[c].id /\ Len(sq.items) > 1

\* C3: solvedCategoryIds never holds an id twice, and a step that is not a
\* resetGame only appends to it (what was appended stays, in place).
C3_SolvedOnceAndKept ==
    /\ [](NoDuplicates(gameState.solvedCategoryIds))
    /\ [][SessionStep =>
            IsPrefix(gameState.solvedCategoryIds, gameState'.solvedCategoryIds)]_vars

\* C3 witness: a category was solved, and calls have been made since.
C3_Witness ==
    /\ Len(gameState.solvedCategoryIds) = 1
    /\ gameState.mistakes > 0
    /\ lastCall.path = "first"
    /\ \E sq \in Range(gameState.grid) : ~sq.isSolved /\ Len(sq.items) > 1

\* C4: status is 'won' iff solvedCategoryIds holds every category iff endTime is set.
C4_WonIffAllSolvedIffEnded ==
    LET won == gameState.status = "won"
        allSolved == Len(gameState.solvedCategoryIds) = CATEGORIES_PER_PUZZLE
        ended == gameState.endTime # Undefined
    IN  (won <=> allSolved) /\ (allSolved <=> ended)

\* C4 witness: a game that has been won.
C4_Witness ==
    /\ gameState.status = "won"
    /\ gameState.endTime # Undefined
    /\ Len(gameState.solvedCategoryIds) = CATEGORIES_PER_PUZZLE

\* The call selectSquare(squareId) attempts a merge of squares of different categories.
FailedAttempt(squareId) ==
    /\ SecondSelection(squareId)
    /\ CategoryIdOf(selectedSquareIds[1]) # CategoryIdOf(squareId)

\* C5: within a session mistakes never decreases; a selectSquare that attempts
\* a merge of squares of different categories adds exactly 1 and every other
\* call (of selectSquare, clearSelection, clearShake) leaves it unchanged.
C5_MistakesCountFailedMerges ==
    [][/\ SessionStep => gameState'.mistakes >= gameState.mistakes
       /\ \A squareId \in SquareIds :
            selectSquare(squareId) =>
                gameState'.mistakes =
                    gameState.mistakes + (IF FailedAttempt(squareId) THEN 1 ELSE 0)
       /\ clearSelection => gameState'.mistakes = gameState.mistakes
       /\ clearShake => gameState'.mistakes = gameState.mistakes]_vars

\* C5 witness: a second mistake has just been counted.
C5_Witness ==
    /\ lastCall.path = "merge"
    /\ lastMergeResult = Some(FailureResult)
    /\ gameState.mistakes = 2

\* C6: a square is flagged solved iff it holds exactly ITEMS_PER_CATEGORY items
\* (10 in the program), and no square holds more.
C6_SolvedIffFull ==
    \A sq \in Range(gameState.grid) :
        /\ sq.isSolved <=> (Len(sq.items) = ITEMS_PER_CATEGORY)
        /\ Len(sq.items) <= ITEMS_PER_CATEGORY

\* C6 witness: a solved square next to an unsolved cluster.
C6_Witness ==
    /\ \E sq \in Range(gameState.grid) : sq.isSolved
    /\ \E sq \in Range(gameState.grid) : ~sq.isSolved /\ Len(sq.items) > 1

\* C7: a second selection of squares of different categories yields the failure
\* result, adds 1 to mistakes, marks both ids as shaking and leaves the grid,
\* solvedCategoryIds, status and endTime as they were.
C7_FailedMergeEffect ==
    [][\A squareId \in SquareIds :
        (selectSquare(squareId) /\ FailedAttempt(squareId)) =>
            /\ lastMergeResult' = Some([success |-> FALSE, reason |-> "different-categories"])
            /\ gameState'.mistakes = gameState.mistakes + 1
            /\ Range(shakingSquareIds') = {selectedSquareIds[1], squareId}
            /\ gameState'.grid = gameState.grid
            /\ gameState'.solvedCategoryIds = gameState.solvedCategoryIds
            /\ gameState'.status = gameState.status
            /\ gameState'.endTime = gameState.endTime]_vars

\* C7 witness: a failed merge has just been reported on a grid that holds a cluster.
C7_Witness ==
    /\ lastCall.path = "merge"
    /\ lastMergeResult = Some(FailureResult)
    /\ Len(shakingSquareIds) = 2
    /\ gameState.mistakes = 1
    /\ \E sq \in Range(gameState.grid) : sq.id \in Range(shakingSquareIds) /\ Len(sq.items) > 1

\* C8: a second selection of squares of the same category replaces the two by
\* one square that has the first-selected id and the first-selected square's
\* items followed by the second's; the grid is one square shorter and its other
\* squares are unchanged, in their order.
C8_MergeReplacesBoth ==
    [][\A squareId \in SquareIds :
        (/\ selectSquare(squareId)
         /\ SecondSelection(squareId)
         /\ CategoryIdOf(selectedSquareIds[1]) = CategoryIdOf(squareId)) =>
            LET first == CHOOSE sq \in SquaresWithId(selectedSquareIds[1]) : TRUE
                second == CHOOSE sq \in SquaresWithId(squareId) : TRUE
                merged == SelectSeq(gameState'.grid, LAMBDA sq : sq.id = first.id)
            IN  /\ Len(merged) = 1
                /\ merged[1].items = first.items \o second.items
                /\ merged[1].categoryId = first.categoryId
                /\ Len(gameState'.grid) = Len(gameState.grid) - 1
                /\ \A sq \in Range(gameState'.grid) : sq.id # second.id
                /\ SelectSeq(gameState'.grid, LAMBDA sq : sq.id # first.id)
                     = SelectSeq(gameState.grid,
                                 LAMBDA sq : sq.id # first.id /\ sq.id # second.id)]_vars

\* C8 witness: a cluster of two was just merged with a third square.
C8_Witness ==
    /\ lastCall.path = "merge"
    /\ lastMergeResult # Undefined /\ lastMergeResult[1].success
    /\ Len(lastMergeResult[1].mergedSquare.items) = 3
    /\ lastMergeResult[1].mergedSquare.items[1] # fruits.items[1]
    /\ lastMergeResult[1].mergedSquare \in Range(gameState.grid)

\* C9: selectSquare of the id that is the sole selection empties the selection
\* and attempts no merge: the game state is unchanged.
C9_DeselectKeepsGame ==
    [][\A squareId \in SquareIds :
        (selectSquare(squareId) /\ selectedSquareIds = <<squareId>>) =>
            /\ selectedSquareIds' = <<>>
            /\ lastMergeResult' = Undefined
            /\ gameState'.grid = gameState.grid
            /\ gameState'.mistakes = gameState.mistakes
            /\ gameState'.solvedCategoryIds = gameState.solvedCategoryIds
            /\ gameState'.status = gameState.status]_vars

\* C9 witness: a cluster was just deselected.
C9_Witness ==
    /\ lastCall.path = "deselect"
    /\ selectedSquareIds = <<>>
    /\ Len(gameState.grid) < TOTAL_ITEMS

\* C10: selectSquare changes nothing (game state, selection, lastMergeResult,
\* shakingSquareIds) when status is 'won', when no square has the id or when
\* the square is solved.
C10_IgnoredSelectIsNoOp ==
    [][\A squareId \in SquareIds :
        (/\ selectSquare(squareId)
         /\ \/ gameState.status = "won"
            \/ SquaresWithId(squareId) = {}
            \/ \E sq \in SquaresWithId(squareId) : sq.isSolved) =>
            UNCHANGED <<gameState, selectedSquareIds, lastMergeResult, shakingSquareIds>>]_vars

\* C10 witness: a solved square was just tapped while another square was
\* selected, and the selection is still there.
C10_Witness ==
    /\ lastCall.path = "ignored-solved"
    /\ gameState.status = "playing"
    /\ Len(selectedSquareIds) = 1
    /\ gameState.mistakes > 0

\* C11: 'won' is terminal: in a won game no selectSquare, clearSelection or
\* clearShake changes status, grid, mistakes, solvedCategoryIds or endTime, and
\* only resetGame leaves 'won'.
C11_WonIsTerminal ==
    [][gameState.status = "won" =>
        /\ ((\E squareId \in SquareIds : selectSquare(squareId)) \/ clearSelection \/ clearShake) =>
            /\ gameState'.status = gameState.status
            /\ gameState'.grid = gameState.grid
            /\ gameState'.mistakes = gameState.mistakes
            /\ gameState'.solvedCategoryIds = gameState.solvedCategoryIds
            /\ gameState'.endTime = gameState.endTime
        /\ gameState'.status # "won" => resetGame]_vars

\* C11 witness: a square was tapped in a won game that was not won without a mistake.
C11_Witness ==
    /\ gameState.status = "won"
    /\ lastCall = [op |-> "selectSquare", path |-> "ignored-won"]
    /\ gameState.mistakes > 0

\* The call selectSquare(squareId) merges the last two squares of a category:
\* a second selection of two squares of one category that has no other square.
MergesLastTwo(squareId) ==
    /\ SecondSelection(squareId)
    /\ CategoryIdOf(selectedSquareIds[1]) = CategoryIdOf(squareId)
    /\ \A sq \in Range(gameState.grid) :
        sq.categoryId = CategoryIdOf(squareId) => sq.id \in {selectedSquareIds[1], squareId}

\* C12: merging the last two squares of a category yields a solved square and
\* appends the category to solvedCategoryIds; when that makes every category
\* solved the same call sets status 'won' and endTime; an endTime that is set
\* keeps its value until resetGame.
C12_LastMergeSolvesAndWins ==
    [][/\ \A squareId \in SquareIds :
            (selectSquare(squareId) /\ MergesLastTwo(squareId)) =>
                /\ \E sq \in Range(gameState'.grid) :
                    /\ sq.id = selectedSquareIds[1]
                    /\ sq.categoryId = CategoryIdOf(squareId)
                    /\ sq.isSolved
                /\ gameState'.solvedCategoryIds =
                        Append(gameState.solvedCategoryIds, CategoryIdOf(squareId))
                /\ Len(gameState'.solvedCategoryIds) = CATEGORIES_PER_PUZZLE =>
                        gameState'.status = "won" /\ gameState'.endTime # Undefined
       /\ (gameState.endTime # Undefined /\ SessionStep) =>
                gameState'.endTime = gameState.endTime]_vars

\* C12 witness: the merge that solved the last category has just won the game.
C12_Witness ==
    /\ lastCall = [op |-> "selectSquare", path |-> "merge"]
    /\ gameState.status = "won"
    /\ gameState.endTime # Undefined
    /\ Len(gameState.solvedCategoryIds) = CATEGORIES_PER_PUZZLE

\* The items of the puzzle.
PuzzleItems ==
    UNION {Range(SAMPLE_PUZZLE.categories[c].items) : c \in 1..CATEGORIES_PER_PUZZLE}

\* C13: resetGame, called in any reachable state, yields one unsolved singleton
\* square per puzzle item (100 in the program), mistakes 0, no solved category,
\* status 'playing', no endTime, an empty selection, no lastMergeResult and no
\* shaking square.
C13_ResetYieldsFreshGame ==
    [][resetGame =>
        /\ Len(gameState'.grid) = TOTAL_ITEMS
        /\ \A sq \in Range(gameState'.grid) : Len(sq.items) = 1 /\ ~sq.isSolved
        /\ \A item \in PuzzleItems :
            Cardinality({k \in 1..Len(gameState'.grid) : gameState'.grid[k].items = <<item>>}) = 1
        /\ gameState'.mistakes = 0
        /\ gameState'.solvedCategoryIds = <<>>
        /\ gameState'.status = "playing"
        /\ gameState'.endTime = Undefined
        /\ selectedSquareIds' = <<>>
        /\ lastMergeResult' = Undefined
        /\ shakingSquareIds' = <<>>]_vars

\* C13 witness: a game that resetGame has just started.
C13_Witness ==
    /\ lastCall.op = "resetGame"
    /\ gameState.status = "playing"
    /\ Len(gameState.grid) = TOTAL_ITEMS
    /\ gameState.mistakes = 0

\* C14: clearSelection and clearShake leave the whole game state (grid,
\* mistakes, solvedCategoryIds, status, startTime, endTime) unchanged;
\* clearShake also leaves the selection and lastMergeResult unchanged.
C14_ClearsKeepGameState ==
    [][/\ clearSelection => gameState' = gameState
       /\ clearShake =>
            /\ gameState' = gameState
            /\ selectedSquareIds' = selectedSquareIds
            /\ lastMergeResult' = lastMergeResult]_vars

\* C14 witness: clearShake has ended the shake of a failed merge whose result
\* is still reported, in a game that holds a cluster.
C14_Witness ==
    /\ lastCall.op = "clearShake"
    /\ shakingSquareIds = <<>>
    /\ lastMergeResult = Some(FailureResult)
    /\ gameState.mistakes > 0
    /\ Len(gameState.grid) < TOTAL_ITEMS

\* C15: in every reachable state the selection holds at most MAX_SELECTION ids,
\* holds no id twice, and every selected id is the id of a square that is in
\* the grid and is not solved.
C15_SelectionWellFormed ==
    /\ Len(selectedSquareIds) <= MAX_SELECTION
    /\ NoDuplicates(selectedSquareIds)
    /\ \A id \in Range(selectedSquareIds) :
        /\ SquaresWithId(id) # {}
        /\ \A sq \in SquaresWithId(id) : ~sq.isSolved

\* C15 witness: a cluster is selected next to a solved square, after a mistake.
C15_Witness ==
    /\ Len(selectedSquareIds) = 1
    /\ \E sq \in SquaresWithId(selectedSquareIds[1]) : Len(sq.items) > 1
    /\ \E sq \in Range(gameState.grid) : sq.isSolved
    /\ gameState.mistakes > 0

\* C16: after a selectSquare that is a second selection the selection is
\* empty, whether the merge attempt succeeded or failed.
C16_SecondSelectionEmpties ==
    [][\A squareId \in SquareIds :
        (selectSquare(squareId) /\ SecondSelection(squareId)) =>
            selectedSquareIds' = <<>>]_vars

\* C16 witness: a merge attempt has just failed and nothing is selected.
C16_Witness ==
    /\ lastCall = [op |-> "selectSquare", path |-> "merge"]
    /\ lastMergeResult = Some(FailureResult)
    /\ selectedSquareIds = <<>>
    /\ shakingSquareIds # <<>>

\* C17: every selectSquare call, calls made back-to-back before a render
\* included, validates its square and computes its merge against the state the
\* previous call left, so that its effect on the game state and the selection
\* is the one of the same call made after a render: none when the game is won
\* or the id has no unsolved square in the grid as it is, and else the one of
\* the selection update computed on the grid as it is.
C17_CallsSeeThePreviousCallsState ==
    [][\A squareId \in SquareIds :
        selectSquare(squareId) =>
            IF ~Accepted(squareId)
            THEN UNCHANGED <<gameState, selectedSquareIds>>
            ELSE LET u == SelectionUpdater(selectedSquareIds, squareId, gameState.grid)
                 IN  /\ selectedSquareIds' = u.selection
                     /\ gameState' \in
                            IF u.attempt = Undefined
                            THEN {gameState}
                            ELSE {ApplyUpdate(gameState, u.attempt[1].update, now) :
                                    now \in Clock}]_vars

\* C18: the result of a successful merge carries the solved category iff the
\* merged square is solved, that is holds ITEMS_PER_CATEGORY items (10 in the
\* program); the category is then the puzzle category whose id is the merged
\* square's categoryId, and the same call appends that id to solvedCategoryIds.
C18_SolvedCategoryIffSolved ==
    [][\A squareId \in SquareIds :
        (/\ selectSquare(squareId)
         /\ SecondSelection(squareId)
         /\ lastMergeResult' # Undefined
         /\ lastMergeResult'[1].success) =>
            LET result == lastMergeResult'[1]
                merged == result.mergedSquare
            IN  /\ merged \in Range(gameState'.grid)
                /\ result.solvedCategory # Undefined <=> merged.isSolved
                /\ merged.isSolved <=> Len(merged.items) = ITEMS_PER_CATEGORY
                /\ result.solvedCategory # Undefined =>
                    /\ result.solvedCategory[1] \in Range(SAMPLE_PUZZLE.categories)
                    /\ result.solvedCategory[1].id = merged.categoryId
                    /\ gameState'.solvedCategoryIds =
                            Append(gameState.solvedCategoryIds, merged.categoryId)]_vars

\* C18 witness: the last merge solved the second category of the puzzle while
\* the first is still open, and the result carries it.
C18_Witness ==
    /\ lastCall = [op |-> "selectSquare", path |-> "merge"]
    /\ lastMergeResult # Undefined
    /\ lastMergeResult[1].success
    /\ lastMergeResult[1].solvedCategory = Some(SAMPLE_PUZZLE.categories[2])
    /\ gameState.solvedCategoryIds = <<SAMPLE_PUZZLE.categories[2].id>>

\* C19: the state initialize produces has a grid that is a permutation of one
\* unsolved singleton square per (category, item index) pair (100 in the
\* program), each with the id '<categoryId>-<index>', the item at that index
\* and that categoryId, with pairwise distinct ids; mistakes is 0,
\* solvedCategoryIds is empty, status is 'playing' and endTime is unset. The
\* puzzle is only read: SAMPLE_PUZZLE is the same value before and after.
C19_InitializeYieldsUnitGrid ==
    lastCall.op = "initialize" =>
        /\ Len(gameState.grid) = TOTAL_ITEMS
        /\ \A c \in 1..CATEGORIES_PER_PUZZLE :
            \A index \in 0..(Len(SAMPLE_PUZZLE.categories[c].items) - 1) :
                Cardinality({k \in 1..Len(gameState.grid) :
                    gameState.grid[k] =
                        [id |-> <<SAMPLE_PUZZLE.categories[c].id, index>>,
                         items |-> <<SAMPLE_PUZZLE.categories[c].items[index + 1]>>,
                         categoryId |-> SAMPLE_PUZZLE.categories[c].id,
                         isSolved |-> FALSE]}) = 1
        /\ NoDuplicates([k \in 1..Len(gameState.grid) |-> gameState.grid[k].id])
        /\ gameState.puzzleId = SAMPLE_PUZZLE.id
        /\ gameState.mistakes = 0
        /\ gameState.solvedCategoryIds = <<>>
        /\ gameState.status = "playing"
        /\ gameState.endTime = Undefined

\* C19 witness: an initial state whose grid the shuffle has put in another
\* order than the one the squares were built in, with a square of the first
\* category among those of the second.
C19_Witness ==
    /\ lastCall.op = "initialize"
    /\ gameState.grid # UnitSquares(SAMPLE_PUZZLE)
    /\ \E k \in (ITEMS_PER_CATEGORY + 1)..TOTAL_ITEMS :
        gameState.grid[k].categoryId = SAMPLE_PUZZLE.categories[1].id

RECURSIVE SumOf(_)
SumOf(numbers) == IF numbers = <<>> THEN 0 ELSE Head(numbers) + SumOf(Tail(numbers))

\* The width fractions of the layout items of the row at rowIndex.
WidthFractionsOfRow(layout, rowIndex) ==
    LET ofRow == SelectSeq(layout, LAMBDA item : item.rowIndex = rowIndex)
    IN  [k \in 1..Len(ofRow) |-> ofRow[k].widthFraction]

\* C20: for every input of packIntoRows and every row it emits, totalItems is
\* the sum of items.length over the squares of the row, so that the width
\* fractions items.length / totalItems calculateLayout gives the row's squares
\* sum to exactly 1: they share the denominator totalItems, which is not 0,
\* and their numerators sum to it.
C20_TotalItemsIsRowSum ==
    LET layout == calculateLayout(unsolvedSquares)
    IN  \A r \in 1..Len(rows) :
            LET fractions == WidthFractionsOfRow(layout, r - 1)
            IN  /\ rows[r].totalItems = SumItemCounts(rows[r].squares)
                /\ Len(fractions) = Len(rows[r].squares)
                /\ \A k \in 1..Len(fractions) :
                    /\ fractions[k].denominator = rows[r].totalItems
                    /\ fractions[k].denominator # 0
                    /\ fractions[k].numerator = Len(rows[r].squares[k].items)
                /\ SumOf([k \in 1..Len(fractions) |-> fractions[k].numerator])
                        = rows[r].totalItems

\* C20 witness: a full input packed into several rows, one of them holding
\* squares of different sizes and one a single square.
C20_Witness ==
    /\ Len(unsolvedSquares) = MaxLayoutSquares
    /\ Len(rows) > 2
    /\ \E r \in 1..Len(rows) :
        \E k \in 2..Len(rows[r].squares) :
            Len(rows[r].squares[k].items) < Len(rows[r].squares[1].items)
    /\ \E r \in 1..Len(rows) : Len(rows[r].squares) = 1

\* C21: for every input of packIntoRows, every emitted row that holds more
\* than one square has totalItems <= MAX_ITEMS_PER_ROW: the ceiling is never
\* exceeded by the square added last to a row.
C21_SharedRowsWithinCeiling ==
    \A r \in 1..Len(rows) :
        Len(rows[r].squares) > 1 =>
            /\ rows[r].totalItems <= MAX_ITEMS_PER_ROW
            /\ SumItemCounts(rows[r].squares) <= MAX_ITEMS_PER_ROW

\* C21 witness: an input of more items than the ceiling, packed into several
\* rows two of which hold more than one square, one of them squares of more
\* than one item.
C21_Witness ==
    /\ SumItemCounts(unsolvedSquares) > MAX_ITEMS_PER_ROW
    /\ \E r, q \in 1..Len(rows) :
        /\ r # q
        /\ Len(rows[r].squares) > 1
        /\ Len(rows[q].squares) > 1
        /\ Len(rows[r].squares[Len(rows[r].squares)].items) > 1
        /\ rows[r].totalItems > TARGET_ITEMS_PER_ROW

\* C22: packIntoRows returns the empty list of rows if and only if its input
\* is empty, and no row it emits is without a square.
C22_NoRowsIffNoSquares ==
    /\ (rows = <<>>) <=> (unsolvedSquares = <<>>)
    /\ \A r \in 1..Len(rows) : Len(rows[r].squares) > 0

\* C22 witness: a non-empty input whose last row, pushed after the loop,
\* holds a single square and follows a row closed in the loop.
C22_Witness ==
    /\ unsolvedSquares # <<>>
    /\ Len(rows) > 1
    /\ Len(rows[Len(rows)].squares) = 1
    /\ Len(rows[1].squares) > 1

\* The squares of the rows, row after row.
SquaresOfRows(packed) == Flatten([r \in 1..Len(packed) |-> packed[r].squares])

\* The place of the square at index k of squares in the list ordered by item
\* count descending, ties in the order of squares.
PlaceByItemCount(squares, k) ==
    Cardinality({j \in 1..Len(squares) :
                    \/ Len(squares[j].items) > Len(squares[k].items)
                    \/ Len(squares[j].items) = Len(squares[k].items) /\ j <= k})

\* C23: the rows emitted by packIntoRows, concatenated in order, are the input
\* squares ordered by item count descending with ties kept in input order:
\* every input square is in exactly one row exactly once and no square is added
\* or lost.
C23_RowsAreTheSortedInput ==
    LET placed == SquaresOfRows(rows)
    IN  /\ Len(placed) = Len(unsolvedSquares)
        /\ \A k \in 1..Len(unsolvedSquares) :
            placed[PlaceByItemCount(unsolvedSquares, k)] = unsolvedSquares[k]
        /\ \A p \in 1..Len(placed) - 1 :
            Len(placed[p].items) >= Len(placed[p + 1].items)

\* C23 witness: an input that is not in descending order and holds squares of
\* equal item count on both sides of a larger one, packed into several rows.
C23_Witness ==
    /\ Len(rows) > 1
    /\ \E i, j, k \in 1..Len(unsolvedSquares) :
        /\ i < j /\ j < k
        /\ Len(unsolvedSquares[i].items) < Len(unsolvedSquares[j].items)
        /\ Len(unsolvedSquares[i].items) = Len(unsolvedSquares[k].items)

\* The item counts of the squares of each row.
ItemCountsOfRows(packed) ==
    [r \in 1..Len(packed) |->
        [k \in 1..Len(packed[r].squares) |-> Len(packed[r].squares[k].items)]]

\* C24: in the rows of packIntoRows a square of TARGET_ITEMS_PER_ROW items or
\* more is alone in its row, and a row that holds singleton squares holds at
\* most TARGET_ITEMS_PER_ROW squares; one square of 9 items and nine
\* singletons give the rows [9], five singletons and four singletons.
C24_LargeSquaresAloneSingletonsByFive ==
    /\ \A r \in 1..Len(rows) :
        /\ (\E k \in 1..Len(rows[r].squares) :
                Len(rows[r].squares[k].items) >= TARGET_ITEMS_PER_ROW)
            => Len(rows[r].squares) = 1
        /\ (\E k \in 1..Len(rows[r].squares) : Len(rows[r].squares[k].items) = 1)
            => Len(rows[r].squares) <= TARGET_ITEMS_PER_ROW
    /\ unsolvedSquares = NineAndSingletonsBoard
        => ItemCountsOfRows(rows) = << <<9>>, <<1, 1, 1, 1, 1>>, <<1, 1, 1, 1>> >>

\* C24 witness: the rows of one square of 9 items and nine singletons.
C24_Witness ==
    /\ unsolvedSquares = NineAndSingletonsBoard
    /\ Len(rows) > 1
    /\ Len(rows[1].squares[1].items) >= TARGET_ITEMS_PER_ROW
    /\ \E r \in 1..Len(rows) : Len(rows[r].squares) = TARGET_ITEMS_PER_ROW

SuccessfulMergeStep ==
    /\ lastCall'.op = "selectSquare"
    /\ lastCall'.path = "merge"
    /\ lastMergeResult' # Undefined
    /\ lastMergeResult'[1].success

\* C26: the grid holds TOTAL_ITEMS squares initially (100 in the program) and
\* exactly CATEGORIES_PER_PUZZLE squares (10), all solved and one per category,
\* whenever status is 'won'; the number of squares is TOTAL_ITEMS less the
\* number of successful merges since the last initialization: initialization
\* and resetGame give TOTAL_ITEMS squares, a successful merge takes exactly one
\* away, and no other call changes the number, so that it never increases
\* within a session.
C26_GridSizeCountsMerges ==
    /\ Len(gameState.grid) = TOTAL_ITEMS
    /\ [](gameState.status = "won" =>
            /\ Len(gameState.grid) = CATEGORIES_PER_PUZZLE
            /\ \A sq \in Range(gameState.grid) : sq.isSolved
            /\ \A c \in 1..CATEGORIES_PER_PUZZLE :
                Cardinality({k \in 1..Len(gameState.grid) :
                    gameState.grid[k].categoryId = SAMPLE_PUZZLE.categories[c].id}) = 1)
    /\ [][/\ lastCall'.op = "resetGame" => Len(gameState'.grid) = TOTAL_ITEMS
          /\ SessionStep /\ SuccessfulMergeStep =>
                Len(gameState'.grid) = Len(gameState.grid) - 1
          /\ SessionStep /\ ~SuccessfulMergeStep =>
                Len(gameState'.grid) = Len(gameState.grid)]_vars

\* C26 witness: the game was just won by a merge, after a failed attempt.
C26_Witness ==
    /\ gameState.status = "won"
    /\ lastCall.path = "merge"
    /\ gameState.mistakes > 0
    /\ Len(gameState.grid) < TOTAL_ITEMS

\* C27: for the grid of a new game of the program's size, 100 singleton
\* squares, packIntoRows returns exactly 20 rows, each of 5 squares and with
\* totalItems 5.
C27_InitialGridPacksIntoTwentyRows ==
    gameState.grid = InitialBoard =>
        /\ Len(unsolvedSquares) = 100
        /\ \A k \in 1..Len(unsolvedSquares) : Len(unsolvedSquares[k].items) = 1
        /\ Len(rows) = 20
        /\ getTotalRows(unsolvedSquares) = 20
        /\ \A r \in 1..Len(rows) :
            /\ Len(rows[r].squares) = 5
            /\ rows[r].totalItems = 5

\* C27 witness: GameBoard has rendered the grid of a new game and packed it.
C27_Witness ==
    /\ gameState.grid = InitialBoard
    /\ Len(gameState.grid) = Len(BoardCategoryIds) * BoardItemsPerCategory
    /\ rows = packIntoRows(getUnsolvedSquares(InitialBoard))
    /\ rows # <<>>

\* C28: the branch of attemptMerge for a missing square is never taken:
\* whenever a second selection makes selectSquare call attemptMerge, the
\* selected id and the tapped id are ids of squares of the grid; so a failed
\* result is that of squares of different categories and comes with exactly
\* one more mistake, and mistakes changes within a session in no other way.
C28_AttemptMergeFindsBothSquares ==
    [][/\ \A squareId \in SquareIds :
            (selectSquare(squareId) /\ lastCall'.path = "merge") =>
                /\ Len(selectedSquareIds) = 1
                /\ SquaresWithId(selectedSquareIds[1]) # {}
                /\ SquaresWithId(squareId) # {}
                /\ getSquareById(closure.grid, selectedSquareIds[1]) # Undefined
                /\ getSquareById(closure.grid, squareId) # Undefined
                /\ lastMergeResult' # Undefined
                /\ ~lastMergeResult'[1].success =>
                    /\ CategoryIdOf(selectedSquareIds[1]) # CategoryIdOf(squareId)
                    /\ gameState'.mistakes = gameState.mistakes + 1
       /\ (SessionStep /\ gameState'.mistakes # gameState.mistakes) =>
            /\ lastCall'.path = "merge"
            /\ lastMergeResult' # Undefined
            /\ ~lastMergeResult'[1].success]_vars

\* C28 witness: a merge attempt just failed in a grid from which an earlier
\* merge has removed a square.
C28_Witness ==
    /\ lastCall.path = "merge"
    /\ lastMergeResult # Undefined /\ ~lastMergeResult[1].success
    /\ Len(gameState.grid) < TOTAL_ITEMS
    /\ gameState.mistakes = 1
    /\ gameState.solvedCategoryIds = <<>>

\* C29: a selectSquare call that is not ignored clears the feedback earlier
\* calls have left: after a first selection or a deselection lastMergeResult is
\* null and shakingSquareIds is empty, and after a second selection the two
\* describe the merge attempt of that call alone, a success with the merged
\* square and no shake or a failure with the shake of the two squares.
C29_SelectSquareClearsOldFeedback ==
    [][\A squareId \in SquareIds :
        /\ (selectSquare(squareId) /\ lastCall'.path \in {"first", "deselect"}) =>
            /\ lastMergeResult' = Undefined
            /\ shakingSquareIds' = <<>>
        /\ (selectSquare(squareId) /\ lastCall'.path = "merge") =>
            /\ lastMergeResult' # Undefined
            /\ IF CategoryIdOf(selectedSquareIds[1]) = CategoryIdOf(squareId)
               THEN /\ lastMergeResult'[1].success
                    /\ lastMergeResult'[1].mergedSquare.id = selectedSquareIds[1]
                    /\ lastMergeResult'[1].mergedSquare \in Range(gameState'.grid)
                    /\ shakingSquareIds' = <<>>
               ELSE /\ lastMergeResult'[1] = FailureResult
                    /\ shakingSquareIds' = <<selectedSquareIds[1], squareId>>]_vars

\* C29 witness: a first selection after a failed attempt and a merge, with no
\* feedback left.
C29_Witness ==
    /\ lastCall.path = "first"
    /\ Len(selectedSquareIds) = 1
    /\ lastMergeResult = Undefined
    /\ shakingSquareIds = <<>>
    /\ gameState.mistakes > 0
    /\ Len(gameState.grid) < TOTAL_ITEMS

\* C30: as squares merge the rows of the layout consolidate: packIntoRows
\* returns for the unsolved squares after a successful merge no more rows than
\* it returned for the unsolved squares before the merge.
C30_MergeNeverAddsARow ==
    [][BoardMerge => Len(rows') <= Len(rows)]_vars

\* C31: a successful merge, one computed from the squares of the closure of an
\* earlier render included, writes to the grid a square that holds exactly the
\* items of the squares it removes from the grid, so that no item is dropped
\* or duplicated: the items of the grid are the same before and after.
C31_StaleMergeKeepsItems ==
    [][\A squareId \in SquareIds :
        (/\ selectSquare(squareId)
         /\ lastCall'.path = "merge"
         /\ lastMergeResult' # Undefined
         /\ lastMergeResult'[1].success) =>
            LET merged == lastMergeResult'[1].mergedSquare
                removed == SelectSeq(gameState.grid,
                                     LAMBDA sq : sq.id \in {selectedSquareIds[1], squareId})
                removedItems == Flatten([k \in 1..Len(removed) |-> removed[k].items])
                itemsOf(grid) == Flatten([k \in 1..Len(grid) |-> grid[k].items])
            IN  /\ merged \in Range(gameState'.grid)
                /\ Len(merged.items) = Len(removedItems)
                /\ Range(merged.items) = Range(removedItems)
                /\ SumItemCounts(gameState'.grid) = SumItemCounts(gameState.grid)
                /\ Range(itemsOf(gameState'.grid)) = Range(itemsOf(gameState.grid))
                /\ NoDuplicates(itemsOf(gameState.grid))
                    => NoDuplicates(itemsOf(gameState'.grid))]_vars

\* C32: the effects of a merge attempt are applied once per second selection
\* even when the function passed to setSelectedSquareIds, which calls
\* attemptMerge, is evaluated more than once for the call: a failed attempt
\* adds exactly 1 to mistakes, and a successful one appends the category to
\* solvedCategoryIds at most once.
C32_ReplayedUpdaterAppliesOnce ==
    [][\A squareId \in SquareIds :
        (selectSquareReplayed(squareId) /\ SecondSelection(squareId)) =>
            IF CategoryIdOf(selectedSquareIds[1]) # CategoryIdOf(squareId)
            THEN gameState'.mistakes = gameState.mistakes + 1
            ELSE /\ gameState'.mistakes = gameState.mistakes
                 /\ Len(gameState'.solvedCategoryIds) <= Len(gameState.solvedCategoryIds) + 1
                 /\ NoDuplicates(gameState'.solvedCategoryIds)]_vars

\* The unsolved squares of the grid that have the categoryId.
UnsolvedOfCategory(categoryId) ==
    {k \in 1..Len(gameState.grid) :
        gameState.grid[k].categoryId = categoryId /\ ~gameState.grid[k].isSolved}

\* The solved squares of the grid that have the categoryId.
SolvedOfCategory(categoryId) ==
    {k \in 1..Len(gameState.grid) :
        gameState.grid[k].categoryId = categoryId /\ gameState.grid[k].isSolved}

\* What is left to do before the game is won: two calls for every merge, one
\* less when a square is selected.
CallsToGo == 2 * Len(gameState.grid) - Len(selectedSquareIds)

\* The call selectSquare(squareId) is one towards 'won': the first selection of
\* an unsolved square, or the second selection of a square of the category of
\* the selected one.
CallTowardsWon(squareId) ==
    /\ Accepted(squareId)
    /\ \/ selectedSquareIds = <<>>
       \/ /\ SecondSelection(squareId)
          /\ CategoryIdOf(selectedSquareIds[1]) = CategoryIdOf(squareId)

\* C33: every category is either solved, in exactly one square that holds all
\* its items (10 in the program), or in at least two unsolved squares; so while
\* status is 'playing' two unsolved squares of one category exist, and the
\* game is never stuck: in every state that is not won there is a selectSquare
\* call towards 'won', and every such call brings the game closer (it selects
\* a square or merges two, and counts no mistake), so that 'won' can be
\* reached from every reachable state by selectSquare calls.
C33_NeverStuck ==
    /\ [](/\ \A c \in 1..CATEGORIES_PER_PUZZLE :
            LET category == SAMPLE_PUZZLE.categories[c]
                solved == SolvedOfCategory(category.id)
                unsolved == UnsolvedOfCategory(category.id)
            IN  \/ /\ Cardinality(solved) = 1
                   /\ unsolved = {}
                   /\ \A k \in solved :
                        /\ Len(gameState.grid[k].items) = ITEMS_PER_CATEGORY
                        /\ Range(gameState.grid[k].items) = Range(category.items)
                \/ /\ solved = {}
                   /\ Cardinality(unsolved) >= 2
          /\ gameState.status = "playing" =>
                \E c \in 1..CATEGORIES_PER_PUZZLE :
                    Cardinality(UnsolvedOfCategory(SAMPLE_PUZZLE.categories[c].id)) >= 2
          /\ gameState.status # "won" => \E squareId \in SquareIds : CallTowardsWon(squareId)
          /\ gameState.status = "won" <=>
                (Len(gameState.grid) = CATEGORIES_PER_PUZZLE /\ selectedSquareIds = <<>>))
    /\ [][\A squareId \in SquareIds :
            (selectSquare(squareId) /\ CallTowardsWon(squareId)) =>
                /\ 2 * Len(gameState'.grid) - Len(selectedSquareIds') < CallsToGo
                /\ gameState'.mistakes = gameState.mistakes]_vars

\* C33 witness: one category is solved, the other is in exactly two unsolved
\* squares, one of them selected, after failed attempts.
C33_Witness ==
    /\ gameState.status = "playing"
    /\ Len(gameState.solvedCategoryIds) = 1
    /\ Len(gameState.grid) = CATEGORIES_PER_PUZZLE + 1
    /\ Len(selectedSquareIds) = 1
    /\ gameState.mistakes > 0

\* The items of the squares of a grid, square after square.
ItemsOfGrid(grid) == Flatten([k \in 1..Len(grid) |-> grid[k].items])

\* C34: in every reachable state the ids of the squares of the grid are
\* pairwise distinct, and every item of the puzzle (100 in the program) is in
\* exactly one square, exactly once.
C34_DistinctIdsEachItemOnce ==
    /\ NoDuplicates([k \in 1..Len(gameState.grid) |-> gameState.grid[k].id])
    /\ \A item \in PuzzleItems :
        /\ Cardinality({k \in 1..Len(gameState.grid) :
                            item \in Range(gameState.grid[k].items)}) = 1
        /\ Cardinality({p \in 1..Len(ItemsOfGrid(gameState.grid)) :
                            ItemsOfGrid(gameState.grid)[p] = item}) = 1
    /\ Range(ItemsOfGrid(gameState.grid)) = PuzzleItems

\* C34 witness: a grid with a cluster of each category, one of them of more
\* than two items, and singletons left.
C34_Witness ==
    /\ \A c \in 1..CATEGORIES_PER_PUZZLE :
        \E sq \in Range(gameState.grid) :
            sq.categoryId = SAMPLE_PUZZLE.categories[c].id /\ Len(sq.items) > 1
    /\ \E sq \in Range(gameState.grid) : Len(sq.items) > 2
    /\ \E sq \in Range(gameState.grid) : Len(sq.items) = 1

\* C35: in every reachable state a square of the grid with the id
\* '<categoryId>-<index>' has that categoryId, and its first item is the item
\* at that index of that category: the id that survives a merge identifies
\* the first item of the cluster.
C35_IdNamesFirstItem ==
    \A sq \in Range(gameState.grid) :
        \E c \in 1..CATEGORIES_PER_PUZZLE :
            \E i \in 0..(ITEMS_PER_CATEGORY - 1) :
                /\ sq.id = SquareId(SAMPLE_PUZZLE.categories[c].id, i)
                /\ sq.categoryId = SAMPLE_PUZZLE.categories[c].id
                /\ sq.items # <<>>
                /\ sq.items[1] = SAMPLE_PUZZLE.categories[c].items[i + 1]

\* C35 witness: a cluster that began with the last item of its category and
\* took in the first one after another.
C35_Witness ==
    \E sq \in Range(gameState.grid) :
        /\ sq.id = SquareId(fruits.id, ITEMS_PER_CATEGORY - 1)
        /\ Len(sq.items) = ITEMS_PER_CATEGORY
        /\ sq.items[Len(sq.items)] = fruits.items[1]


\* C36: in every state between two operations the selection holds at most one
\* id; a selection of two ids is never left behind by a call, because the
\* second selection makes the merge attempt and empties the selection.
C36_AtMostOneSelected ==
    /\ Len(selectedSquareIds) < MAX_SELECTION
    /\ lastCall.path = "merge" => selectedSquareIds = <<>>

\* C36 witness: a second selection has merged two squares and left nothing
\* selected.
C36_Witness ==
    /\ lastCall = [op |-> "selectSquare", path |-> "merge"]
    /\ lastMergeResult # Undefined
    /\ lastMergeResult[1].success
    /\ selectedSquareIds = <<>>


\* C37: shakingSquareIds is empty or holds exactly two distinct ids, each the
\* id of a square of the grid that is unsolved, the two squares being of
\* different categories; when it is not empty, lastMergeResult is the failure
\* result and nothing is selected.
C37_ShakeIsTheFailedPair ==
    shakingSquareIds # <<>> =>
        /\ Len(shakingSquareIds) = 2
        /\ shakingSquareIds[1] # shakingSquareIds[2]
        /\ \A id \in Range(shakingSquareIds) :
            /\ SquaresWithId(id) # {}
            /\ \A sq \in SquaresWithId(id) : ~sq.isSolved
        /\ \A sqA \in SquaresWithId(shakingSquareIds[1]) :
            \A sqB \in SquaresWithId(shakingSquareIds[2]) :
                sqA.categoryId # sqB.categoryId
        /\ lastMergeResult # Undefined
        /\ ~lastMergeResult[1].success
        /\ selectedSquareIds = <<>>

\* C37 witness: two clusters of different categories shake after the second
\* mistake of the game.
C37_Witness ==
    /\ Len(shakingSquareIds) = 2
    /\ \A id \in Range(shakingSquareIds) :
        \E sq \in SquaresWithId(id) : Len(sq.items) > 1
    /\ gameState.mistakes > 1


\* C38: solvedCategoryIds is the list of the categoryIds of the solved squares
\* of the grid, in the order of the grid: there are as many solved squares
\* (the trophies) as entries of solvedCategoryIds, and a category is in
\* solvedCategoryIds exactly when the grid holds a solved square of it.
C38_SolvedListIsTheSolvedSquares ==
    LET solvedSquares == getSolvedSquares(gameState.grid)
    IN  /\ gameState.solvedCategoryIds =
                [i \in 1..Len(solvedSquares) |-> solvedSquares[i].categoryId]
        /\ Len(solvedSquares) = Len(gameState.solvedCategoryIds)
        /\ \A c \in 1..CATEGORIES_PER_PUZZLE :
            SAMPLE_PUZZLE.categories[c].id \in Range(gameState.solvedCategoryIds)
                <=> SolvedOfCategory(SAMPLE_PUZZLE.categories[c].id) # {}

\* C38 witness: both categories are solved, the second of the puzzle first.
C38_Witness ==
    /\ gameState.solvedCategoryIds = <<countries.id, fruits.id>>
    /\ Len(getSolvedSquares(gameState.grid)) = CATEGORIES_PER_PUZZLE


\* C39: for every input of packIntoRows, every emitted row but the last has
\* totalItems >= TARGET_ITEMS_PER_ROW, and every row that holds more than one
\* square has totalItems <= 8, twice the most a row below the target holds; so
\* wherever a row ends and the next begins the target test is true, and the
\* ceiling test never decides a row break on its own.
C39_RowsBreakAtTargetOnly ==
    /\ \A r \in 1..(Len(rows) - 1) :
        /\ rows[r].totalItems >= TARGET_ITEMS_PER_ROW
        /\ wouldExceed(rows[r].totalItems, Len(rows[r + 1].squares[1].items))
            => isAtTarget(rows[r].totalItems)
    /\ \A r \in 1..Len(rows) :
        Len(rows[r].squares) > 1 =>
            /\ rows[r].totalItems <= 8
            /\ rows[r].totalItems <= 2 * (TARGET_ITEMS_PER_ROW - 1)

\* C39 witness: a row of two squares of 8 items in all is followed by another
\* row, and a row of one square of less than the target is the last.
C39_Witness ==
    /\ Len(rows) > 2
    /\ \E r \in 1..(Len(rows) - 1) :
        /\ Len(rows[r].squares) = 2
        /\ rows[r].totalItems = 8
    /\ Len(rows[Len(rows)].squares) = 1
    /\ rows[Len(rows)].totalItems < TARGET_ITEMS_PER_ROW

====
